---- MODULE Spec2Model ----
(***************************************************************************)
(* A model of the two operations of the vibesafe repository that the spec  *)
(* makes statements about:                                                 *)
(*   scanForLoggingIssues(filePath, content)  (the logging scanner)        *)
(*   getAiFixSuggestions(reportData)          (src/reporting/aiSuggestions)*)
(* Text is a sequence of one-character strings, so that substring,         *)
(* startsWith, trim and the keyword regex are computed, not assumed.       *)
(***************************************************************************)
EXTENDS Integers, Sequences, FiniteSets, TLC

VARIABLES
    \* ---- scanForLoggingIssues ----
    filePath,   \* parameter filePath
    source,     \* the file as written: its statements
    content,    \* parameter content: the text of the file
    ast,        \* the parser's result, once parse has returned
    pc,         \* position inside scanForLoggingIssues
    stack,      \* pending visit(...) calls, innermost first
    visited,    \* the objects visit has been entered for, in order
    findings,   \* const findings: LoggingFinding[]
    origin,     \* for each finding, the node the walk was at when pushing it
    result,     \* what the caller of scanForLoggingIssues observes
    \* ---- getAiFixSuggestions ----
    openai,     \* module-level client: "client" or "null"
    reportData, \* parameter reportData
    apc,        \* position inside getAiFixSuggestions
    request,    \* the summary sent to the service, or NoRequest
    outcome,    \* what the awaited service call did
    aresult     \* what the caller of getAiFixSuggestions observes

scanVars == <<filePath, source, content, ast, pc, stack, visited, findings, origin, result>>
aiVars == <<openai, reportData, apc, request, outcome, aresult>>
vars == <<scanVars, aiVars>>

(***************************************************************************)
(* Text                                                                    *)
(***************************************************************************)
UpperCase == <<"A","B","C","D","E","F","G","H","I","J","K","L","M",
               "N","O","P","Q","R","S","T","U","V","W","X","Y","Z">>
LowerCase == <<"a","b","c","d","e","f","g","h","i","j","k","l","m",
               "n","o","p","q","r","s","t","u","v","w","x","y","z">>

Min(a, b) == IF a < b THEN a ELSE b
Max(a, b) == IF a > b THEN a ELSE b
SetMin(S) == CHOOSE i \in S : \A j \in S : i <= j
SetMax(S) == CHOOSE i \in S : \A j \in S : j <= i

\* String.prototype.substring(start, end): both clamped to [0, length], swapped
\* when start > end; 0-based, end exclusive.
Substring(s, start, end) ==
    LET a == Min(Max(start, 0), Len(s))
        b == Min(Max(end, 0), Len(s))
        lo == Min(a, b)
        hi == Max(a, b)
    IN  SubSeq(s, lo + 1, hi)

\* String.prototype.startsWith(prefix)
StartsWith(s, prefix) ==
    /\ Len(prefix) <= Len(s)
    /\ SubSeq(s, 1, Len(prefix)) = prefix

IsSpace(c) == c \in {" ", "\n"}

\* String.prototype.trim(): white space removed at both ends, kept inside.
Trim(s) ==
    CHOOSE t \in
        {IF keep = {} THEN <<>> ELSE SubSeq(s, SetMin(keep), SetMax(keep)) :
            keep \in {{i \in 1..Len(s) : ~IsSpace(s[i])}}} : TRUE

ToLower(c) ==
    IF \E i \in 1..26 : UpperCase[i] = c
    THEN LowerCase[CHOOSE i \in 1..26 : UpperCase[i] = c]
    ELSE c

\* one-character sequences of the words the source names
W_console == <<"c","o","n","s","o","l","e">>
W_log == <<"l","o","g">>
W_logger == <<"l","o","g","g","e","r">>
W_info == <<"i","n","f","o">>
W_warn == <<"w","a","r","n">>
W_error == <<"e","r","r","o","r">>
W_debug == <<"d","e","b","u","g">>
W_err == <<"e","r","r">>
W_e == <<"e">>
W_stack == <<"s","t","a","c","k">>
W_password == <<"p","a","s","s","w","o","r","d">>
W_email == <<"e","m","a","i","l">>
W_token == <<"t","o","k","e","n">>
W_ssn == <<"s","s","n">>
W_secret == <<"s","e","c","r","e","t">>
W_key == <<"k","e","y">>
W_credential == <<"c","r","e","d","e","n","t","i","a","l">>

LOGGER_OBJECT_NAMES == {W_console, W_log, W_logger}
LOGGER_METHOD_NAMES == {W_log, W_info, W_warn, W_error, W_debug}

\* /password|email|token|ssn|secret|key|credential/i : the alternatives in order
SENSITIVE_WORDS ==
    <<W_password, W_email, W_token, W_ssn, W_secret, W_key, W_credential>>

\* the alternative numbers that match text at 1-based position i, ignoring case
AltsAt(text, i) ==
    {a \in 1..Len(SENSITIVE_WORDS) :
        LET w == SENSITIVE_WORDS[a]
        IN  /\ i + Len(w) - 1 <= Len(text)
            /\ \A j \in 1..Len(w) : ToLower(text[i + j - 1]) = w[j]}

\* the regex without its i flag
SENSITIVE_DATA_REGEX_CaseSensitive(text) ==
    CHOOSE m \in
        {IF hits = {} THEN <<>>
         ELSE <<SENSITIVE_WORDS[SetMin({a \in 1..Len(SENSITIVE_WORDS) :
                    /\ SetMin(hits) + Len(SENSITIVE_WORDS[a]) - 1 <= Len(t)
                    /\ SubSeq(t, SetMin(hits), SetMin(hits) + Len(SENSITIVE_WORDS[a]) - 1)
                            = SENSITIVE_WORDS[a]})]>> :
            t \in {text},
            hits \in {{i \in 1..Len(text) : \E a \in 1..Len(SENSITIVE_WORDS) :
                        /\ i + Len(SENSITIVE_WORDS[a]) - 1 <= Len(text)
                        /\ SubSeq(text, i, i + Len(SENSITIVE_WORDS[a]) - 1)
                                = SENSITIVE_WORDS[a]}}} : TRUE

\* what the regex matches at position i: the first alternative that matches
MatchAt(text, i) ==
    <<SubSeq(text, i, i + Len(SENSITIVE_WORDS[SetMin(AltsAt(text, i))]) - 1)>>

\* the leftmost match of the regex in text and there the first alternative
\* that matches: <<>> for none, else <<the text matched>>
LeftmostMatch(text) ==
    CHOOSE m \in
        {IF hits = {} THEN <<>> ELSE MatchAt(text, SetMin(hits)) :
            hits \in {{i \in 1..Len(text) : AltsAt(text, i) # {}}}} : TRUE

\* SENSITIVE_DATA_REGEX.exec(text): <<>> for null, else <<piiMatch[0]>>
SENSITIVE_DATA_REGEX(text) ==
    CHOOSE m \in {LeftmostMatch(t) : t \in {text}} : TRUE

(***************************************************************************)
(* The file under scan.  A file is written as a sequence of statements;    *)
(* each statement is an expression (or text that does not parse) followed  *)
(* by ";" and is separated from the one before by a blank or a line break. *)
(***************************************************************************)
Id(name) == [k |-> "id", name |-> name]
Str(text) == [k |-> "str", text |-> text]
Member(obj, prop) == [k |-> "member", obj |-> obj, prop |-> prop]
Call(callee, args) == [k |-> "call", callee |-> callee, args |-> args]
Garbage(text) == [k |-> "garbage", text |-> text]
Stmt(expr, nl) == [expr |-> expr, nl |-> nl]

RECURSIVE Text(_)
RECURSIVE JoinText(_)
\* the source text of an expression
Text(d) ==
    CASE d.k = "id" -> d.name
      [] d.k = "str" -> d.text
      [] d.k = "garbage" -> d.text
      [] d.k = "member" ->
            IF d.prop.k = "id" THEN Text(d.obj) \o <<".">> \o d.prop.name
            ELSE Text(d.obj) \o <<"[">> \o d.prop.text \o <<"]">>
      [] d.k = "call" -> Text(d.callee) \o <<"(">> \o JoinText(d.args) \o <<")">>
JoinText(ds) ==
    IF ds = <<>> THEN <<>>
    ELSE IF Len(ds) = 1 THEN Text(ds[1])
    ELSE Text(ds[1]) \o <<",", " ">> \o JoinText(Tail(ds))

StmtText(st, first) ==
    (IF first THEN <<>> ELSE IF st.nl THEN <<"\n">> ELSE <<" ">>)
        \o Text(st.expr) \o <<";">>

RECURSIVE ContentOf(_, _)
ContentOf(src, i) ==
    IF i > Len(src) THEN <<>>
    ELSE StmtText(src[i], i = 1) \o ContentOf(src, i + 1)

\* the text of a file
Content(src) == ContentOf(src, 1)

(***************************************************************************)
(* The parser's result: ESTree objects.  A value is a primitive, null, an  *)
(* array or an object with its own enumerable keys in insertion order.     *)
(***************************************************************************)
Prim(v) == [k |-> "prim", v |-> v]
Null == [k |-> "null"]
Arr(elems) == [k |-> "arr", elems |-> elems]
Obj(fields) == [k |-> "obj", fields |-> fields]

\* Below, "x \in {e}" names the value of e once, as a const declaration does.
Elements(seq) == UNION {{s[i] : i \in 1..Len(s)} : s \in {seq}}
HasKey(o, key) == o.k = "obj" /\ \E f \in Elements(o.fields) : f[1] = key
\* o[key]
Get(o, key) == (CHOOSE f \in Elements(o.fields) : f[1] = key)[2]
\* o.type, "" when the object has none
TypeOf(o) == IF HasKey(o, "type") THEN Get(o, "type").v ELSE ""

LineAt(c, off) == 1 + Cardinality({i \in 1..off : c[i] = "\n"})
ColAt(c, off) ==
    LET nls == {i \in 1..off : c[i] = "\n"}
    IN  IF nls = {} THEN off
        ELSE off - (CHOOSE i \in nls : \A j \in nls : j <= i)
Position(c, off) ==
    Obj(<< <<"line", Prim(LineAt(c, off))>>, <<"column", Prim(ColAt(c, off))>> >>)

\* a node: its own fields, then range and loc (parse options range, loc)
Node(type, own, c, off, len) ==
    Obj(<< <<"type", Prim(type)>> >> \o own \o
        << <<"range", Arr(<<Prim(off), Prim(off + len)>>)>>,
           <<"loc", Obj(<< <<"start", Position(c, off)>>,
                           <<"end", Position(c, off + len)>> >>)>> >>)

RECURSIVE ArgOffset(_, _, _)
\* where argument i starts, the first one starting at base
ArgOffset(args, i, base) ==
    IF i = 1 THEN base
    ELSE ArgOffset(args, i - 1, base) + Len(Text(args[i - 1])) + 2

RECURSIVE Build(_, _, _)
\* the node of expression d, whose text starts at offset off of content c
Build(d, c, off) ==
    CASE d.k = "id" ->
            Node("Identifier", << <<"name", Prim(d.name)>> >>, c, off, Len(d.name))
      [] d.k = "str" ->
            Node("Literal", << <<"value", Prim(d.text)>>, <<"raw", Prim(d.text)>> >>,
                 c, off, Len(d.text))
      [] d.k = "member" ->
            Node("MemberExpression",
                 << <<"object", Build(d.obj, c, off)>>,
                    <<"property", Build(d.prop, c, off + Len(Text(d.obj)) + 1)>>,
                    <<"computed", Prim(d.prop.k # "id")>>,
                    <<"optional", Prim(FALSE)>> >>,
                 c, off, Len(Text(d)))
      [] d.k = "call" ->
            Node("CallExpression",
                 << <<"callee", Build(d.callee, c, off)>>,
                    <<"arguments",
                      Arr([i \in 1..Len(d.args) |->
                            Build(d.args[i], c,
                                  ArgOffset(d.args, i, off + Len(Text(d.callee)) + 1))])>>,
                    <<"optional", Prim(FALSE)>> >>,
                 c, off, Len(Text(d)))

RECURSIVE StmtOffset(_, _)
\* where the expression of statement i starts
StmtOffset(src, i) ==
    IF i = 1 THEN 0
    ELSE StmtOffset(src, i - 1) + Len(Text(src[i - 1].expr)) + 2

ParseError == [ok |-> FALSE]

\* parse(content, { loc: true, range: true, comment: false }): the Program
\* node, or a thrown error when a statement is no expression.
Parse(src, c) ==
    IF \E i \in 1..Len(src) : src[i].expr.k = "garbage" THEN ParseError
    ELSE     [ok |-> TRUE,
              ast |-> Node("Program",
                  << <<"body",
                       Arr([i \in 1..Len(src) |->
                            Node("ExpressionStatement",
                                 << <<"expression",
                                      Build(src[i].expr, c, StmtOffset(src, i))>> >>,
                                 c, StmtOffset(src, i), Len(Text(src[i].expr)) + 1)])>>,
                     <<"sourceType", Prim("script")>> >>,
                  c, 0, Len(c))]

(***************************************************************************)
(* scanForLoggingIssues                                                    *)
(***************************************************************************)
ERROR_LOG == "Potential Unsanitized Error Logging"
PII_LOG == "Potential PII Logging"

\* a place in the tree: from the root, <<field number, element number>> steps
\* (element number 0 for a field that holds an object itself)
RECURSIVE At(_, _)
At(v, path) ==
    IF path = <<>> THEN v
    ELSE LET f == v.fields[path[1][1]][2]
         IN  At(IF path[1][2] = 0 THEN f ELSE f.elems[path[1][2]], Tail(path))

\* content.substring(node.range[0], node.range[1])
RangeText(c, node) ==
    Substring(c, Get(node, "range").elems[1].v, Get(node, "range").elems[2].v)

\* lines 38-41 without the receiver test of lines 43-44
IsLoggerCall_AnyReceiver(node) ==
    /\ TypeOf(node) = "CallExpression"
    /\ TypeOf(Get(node, "callee")) = "MemberExpression"
    /\ TypeOf(Get(Get(node, "callee"), "property")) = "Identifier"
    /\ Get(Get(Get(node, "callee"), "property"), "name").v \in LOGGER_METHOD_NAMES
    /\ TypeOf(Get(Get(node, "callee"), "object")) = "Identifier"

\* the conditions of lines 38-44: a call of <logger object>.<logger method>
IsLoggerCall(node) ==
    /\ TypeOf(node) = "CallExpression"
    /\ TypeOf(Get(node, "callee")) = "MemberExpression"
    /\ TypeOf(Get(Get(node, "callee"), "property")) = "Identifier"
    /\ Get(Get(Get(node, "callee"), "property"), "name").v \in LOGGER_METHOD_NAMES
    /\ TypeOf(Get(Get(node, "callee"), "object")) = "Identifier"
    /\ Get(Get(Get(node, "callee"), "object"), "name").v \in LOGGER_OBJECT_NAMES

\* lines 57-69: isPotentialError
IsPotentialError(firstArg) ==
    \/ /\ TypeOf(firstArg) = "Identifier"
       /\ Get(firstArg, "name").v \in {W_err, W_error, W_e}
    \/ /\ TypeOf(firstArg) = "MemberExpression"
       /\ TypeOf(Get(firstArg, "property")) = "Identifier"
       /\ Get(Get(firstArg, "property"), "name").v = W_stack

\* lines 61, 68: errorVarName
ErrorVarName(c, firstArg) ==
    IF TypeOf(firstArg) = "Identifier" THEN Get(firstArg, "name").v
    ELSE RangeText(c, firstArg)

\* line 73 with the line comparison forgotten
ErrorSeen_AnyLine(fs, file, line) ==
    \E i \in 1..Len(fs) : fs[i].file = file /\ fs[i].type = ERROR_LOG

\* line 73: findings.some(...) of check 1
ErrorSeen(fs, file, line) ==
    \E i \in 1..Len(fs) :
        fs[i].file = file /\ fs[i].line = line /\ fs[i].type = ERROR_LOG

\* lines 74-82: the finding of check 1
ErrorFinding(file, line, errorVarName, fullCallText) ==
    [file |-> file,
     line |-> line,
     type |-> ERROR_LOG,
     severity |-> "Low",
     message |-> errorVarName,
     details |-> [text |-> Substring(fullCallText, 0, 100),
                  more |-> Len(fullCallText) > 100],
     snippet |-> Substring(fullCallText, 0, 200)]

\* lines 52-85: check 1 at a logger call; the findings after it
CheckError(fs, file, c, node) ==
    IF Len(Get(node, "arguments").elems) >= 1
    THEN CHOOSE out \in
            {IF IsPotentialError(firstArg) /\ ~ErrorSeen(fs, file, line)
             THEN Append(fs, ErrorFinding(file, line, ErrorVarName(c, firstArg),
                                          fullCallText))
             ELSE fs :
                firstArg \in {Get(node, "arguments").elems[1]},
                line \in {Get(Get(Get(node, "loc"), "start"), "line").v},
                fullCallText \in {RangeText(c, node)}} : TRUE
    ELSE fs

\* check 2 without its test for an earlier finding
PiiSeen_Never(fs, file, line, snippetPreview) == FALSE

\* lines 98-101: findings.some(...) of check 2
PiiSeen(fs, file, line, snippetPreview) ==
    \E i \in 1..Len(fs) :
        /\ fs[i].file = file
        /\ fs[i].line = line
        /\ fs[i].type = PII_LOG
        /\ StartsWith(fs[i].snippet, snippetPreview)

\* lines 98-112: the finding pushed for an argument that matched, unless seen
PushPii(fs, file, node, index, line, argText, piiMatch, snippetPreview) ==
    IF ~PiiSeen(fs, file, line, snippetPreview)
    THEN Append(fs, [file |-> file,
                     line |-> line,
                     type |-> PII_LOG,
                     severity |-> "Medium",
                     message |-> piiMatch[1],
                     details |-> [argument |-> index,
                                  object |-> Get(Get(Get(node, "callee"), "object"), "name").v,
                                  method |-> Get(Get(Get(node, "callee"), "property"), "name").v,
                                  line |-> line,
                                  text |-> snippetPreview,
                                  more |-> Len(argText) > 100],
                     snippet |-> Substring(argText, 0, 200)])
    ELSE fs

\* lines 94-113: an argument whose text is argText and matched piiMatch
PiiMatched(fs, file, node, index, line, argText, piiMatch) ==
    CHOOSE out \in
        {PushPii(fs, file, node, index, line, argText, piiMatch, snippetPreview) :
            snippetPreview \in {Trim(Substring(argText, 0, 100))}} : TRUE

\* lines 89-114: the body of the forEach callback for argument number index
CheckPiiArg(fs, file, c, node, index) ==
    IF ~HasKey(Get(node, "arguments").elems[index], "range") THEN fs
    ELSE CHOOSE out \in
            {IF piiMatch # <<>>
             THEN PiiMatched(fs, file, node, index, line, argText, piiMatch)
             ELSE fs :
                line \in {Get(Get(Get(node, "loc"), "start"), "line").v},
                argText \in {RangeText(c, Get(node, "arguments").elems[index])},
                piiMatch \in {SENSITIVE_DATA_REGEX(
                                RangeText(c, Get(node, "arguments").elems[index]))}} : TRUE

RECURSIVE CheckPii(_, _, _, _, _)
\* line 88: node.arguments.forEach, from argument number index on
CheckPii(fs, file, c, node, index) ==
    IF index > Len(Get(node, "arguments").elems) THEN fs
    ELSE CHOOSE out \in {CheckPii(pushed, file, c, node, index + 1) :
                            pushed \in {CheckPiiArg(fs, file, c, node, index)}} : TRUE

\* lines 38-119: what visit does at an object before it goes to the children
VisitNode(fs, file, c, node) ==
    IF IsLoggerCall(node)
    THEN CHOOSE out \in {CheckPii(pushed, file, c, node, 1) :
                            pushed \in {CheckError(fs, file, c, node)}} : TRUE
    ELSE fs

\* line 36 and line 126: the values visit does something for (visit returns at
\* once for null, and finds neither a type nor a key in a number)
IsObject(v) == v.k = "obj"

RECURSIVE ChildrenFrom(_, _, _)
\* lines 122-134: the visit calls made for the keys from number i on, in order
ChildrenFrom(node, path, i) ==
    IF i > Len(node.fields) THEN <<>>
    ELSE LET child == node.fields[i][2]
             here ==
                IF child.k = "arr"
                THEN LET idx == {j \in 1..Len(child.elems) : IsObject(child.elems[j])}
                         nth(n) == CHOOSE j \in idx :
                                      Cardinality({m \in idx : m < j}) = n - 1
                     IN  [n \in 1..Cardinality(idx) |-> Append(path, <<i, nth(n)>>)]
                ELSE IF child.k = "obj" THEN <<Append(path, <<i, 0>>)>>
                ELSE <<>>
         IN  here \o ChildrenFrom(node, path, i + 1)

\* the walk without line 128: array-valued keys are not followed
Children_NoArrays(node, path) ==
    LET idx == {i \in 1..Len(node.fields) : node.fields[i][2].k = "obj"}
        nth(n) == CHOOSE i \in idx : Cardinality({m \in idx : m < i}) = n - 1
    IN  [n \in 1..Cardinality(idx) |-> Append(path, <<nth(n), 0>>)]

Children(node, path) == ChildrenFrom(node, path, 1)

NoAst == Null
NoResult == [returned |-> FALSE, thrown |-> FALSE, value |-> <<>>, warned |-> FALSE]

\* line 33, parse returns
ParseOk ==
    /\ pc = "start"
    /\ Parse(source, content).ok
    /\ ast' = Parse(source, content).ast
    /\ stack' = << <<>> >>
    /\ pc' = "walk"
    /\ UNCHANGED <<filePath, source, content, visited, findings, origin, result, aiVars>>

\* line 33, parse throws
ParseThrows ==
    /\ pc = "start"
    /\ ~Parse(source, content).ok
    /\ pc' = "catch"
    /\ UNCHANGED <<filePath, source, content, ast, stack, visited, findings, origin, result, aiVars>>

\* lines 35-135: one call of visit on an object, up to its calls for the children
Visit ==
    /\ pc = "walk"
    /\ stack # <<>>
    /\ \E node \in {At(ast, Head(stack))} :
        \E fs \in {VisitNode(findings, filePath, content, node)} :
            /\ findings' = fs
            /\ origin' = origin \o [i \in 1..(Len(fs) - Len(findings)) |-> Head(stack)]
            /\ visited' = Append(visited, Head(stack))
            /\ stack' = Children(node, Head(stack)) \o Tail(stack)
    /\ UNCHANGED <<filePath, source, content, ast, pc, result, aiVars>>

\* line 137: visit(ast) has returned
WalkReturns ==
    /\ pc = "walk"
    /\ stack = <<>>
    /\ pc' = "return"
    /\ UNCHANGED <<filePath, source, content, ast, stack, visited, findings, origin, result, aiVars>>

\* a catch block that throws the error on
Catch_Rethrow ==
    /\ pc = "catch"
    /\ result' = [returned |-> FALSE, thrown |-> TRUE, value |-> <<>>, warned |-> FALSE]
    /\ pc' = "done"
    /\ UNCHANGED <<filePath, source, content, ast, stack, visited, findings, origin, aiVars>>

\* lines 139-141: the catch block, which does nothing
Catch ==
    /\ pc = "catch"
    /\ pc' = "return"
    /\ UNCHANGED <<filePath, source, content, ast, stack, visited, findings, origin, result, aiVars>>

\* line 143: return findings
Return ==
    /\ pc = "return"
    /\ result' = [returned |-> TRUE, thrown |-> FALSE, value |-> findings, warned |-> FALSE]
    /\ pc' = "done"
    /\ UNCHANGED <<filePath, source, content, ast, stack, visited, findings, origin, aiVars>>

(***************************************************************************)
(* The files scanned                                                       *)
(***************************************************************************)
MaxStmts == 2
MaxWalkStmts == 1
\* an argument longer than the 100 characters of snippetPreview
LongLen == 101

X_db == <<"d","b">>
X_table == <<"t","a","b","l","e">>
X_getLogger == <<"g","e","t","L","o","g","g","e","r">>
X_print == <<"p","r","i","n","t">>
X_fmt == <<"f","m","t">>
X_passwordHash == <<"p","a","s","s","w","o","r","d","H","a","s","h">>
X_ApiKeyText == <<"'","A","P","I"," ","K","e","y","'">>
X_errorLit == <<"'","e","r","r","o","r","'">>
\* two string literals that agree on their first 100 characters
X_longA == <<"'">> \o W_key \o [i \in 1..(LongLen - 5) |-> "x"] \o <<"a", "'">>
X_longB == <<"'">> \o W_key \o [i \in 1..(LongLen - 5) |-> "x"] \o <<"b", "'">>

Method(obj, name) == Member(Id(obj), Id(name))

Exprs ==
    { \* console.error(err)
      Call(Method(W_console, W_error), <<Id(W_err)>>),
      \* logger.warn(error.stack)
      Call(Method(W_logger, W_warn), <<Member(Id(W_error), Id(W_stack))>>),
      \* console.error(password, passwordHash)
      Call(Method(W_console, W_error), <<Id(W_password), Id(X_passwordHash)>>),
      \* console.error(passwordHash, password)
      Call(Method(W_console, W_error), <<Id(X_passwordHash), Id(W_password)>>),
      \* log.info('API Key', e)
      Call(Method(W_log, W_info), <<Str(X_ApiKeyText), Id(W_e)>>),
      \* print(db.error(err, token), console.table(err, secret),
      \*       getLogger().error(console['error'](err, email), console.log()))
      Call(Id(X_print),
           <<Call(Method(X_db, W_error), <<Id(W_err), Id(W_token)>>),
             Call(Method(W_console, X_table), <<Id(W_err), Id(W_secret)>>),
             Call(Member(Call(Id(X_getLogger), <<>>), Id(W_error)),
                  <<Call(Member(Id(W_console), Str(X_errorLit)), <<Id(W_err), Id(W_email)>>),
                    Call(Method(W_console, W_log), <<>>)>>)>>),
      \* console.debug(fmt(logger.error(e, key)))
      Call(Method(W_console, W_debug),
           <<Call(Id(X_fmt), <<Call(Method(W_logger, W_error), <<Id(W_e), Id(W_key)>>)>>)>>),
      \* console.log('keyxx...xa', 'keyxx...xb')
      Call(Method(W_console, W_log), <<Str(X_longA), Str(X_longB)>>),
      \* console.error(err));
      Garbage(Text(Call(Method(W_console, W_error), <<Id(W_err)>>)) \o <<")">>) }

\* the files of n statements, all on one line or one statement a line
SourcesOf(n) ==
    {[i \in 1..n |-> Stmt(es[i], nl)] :
        es \in [1..n -> Exprs], nl \in IF n > 1 THEN BOOLEAN ELSE {FALSE}}

Sources == UNION {SourcesOf(n) : n \in 0..MaxStmts}

FilePaths == {"a.ts"}

(***************************************************************************)
(* Specification of the scan                                               *)
(***************************************************************************)
AiIdle ==
    /\ openai = "null"
    /\ reportData = [secretFindings |-> <<>>, dependencyFindings |-> <<>>]
    /\ apc = "idle"
    /\ request = <<>>
    /\ outcome = <<>>
    /\ aresult = NoResult

Init ==
    /\ filePath \in FilePaths
    /\ source \in Sources
    /\ content = Content(source)
    /\ ast = NoAst
    /\ pc = "start"
    /\ stack = <<>>
    /\ visited = <<>>
    /\ findings = <<>>
    /\ origin = <<>>
    /\ result = NoResult
    /\ AiIdle

Next ==
    \/ ParseOk
    \/ ParseThrows
    \/ Visit
    \/ WalkReturns
    \/ Catch
    \/ Return

Spec == Init /\ [][Next]_vars

\* The scan of the files of at most MaxWalkStmts statements, under the
\* scheduling of a synchronous call on one thread: a step that can be taken
\* is taken.
WalkInit == Init /\ Len(source) <= MaxWalkStmts
FairSpec == WalkInit /\ [][Next]_vars /\ WF_vars(Next)

(***************************************************************************)
(* getAiFixSuggestions (src/reporting/aiSuggestions.ts)                    *)
(*                                                                         *)
(* A value that may be undefined or null is a sequence of length 0 or 1:   *)
(* <<>> is the missing value and <<v>> holds v.                            *)
(***************************************************************************)
MAX_SECRETS_FOR_AI == 10
MAX_DEPS_FOR_AI == 15

\* the character U+0060, which a string of this language cannot hold
Backtick == "backtick"

\* line 37
SKIPPED_TEXT ==
    <<"*","A","I"," ","s","u","g","g","e","s","t","i","o","n","s"," ","s","k",
      "i","p","p","e","d"," ","(","O","p","e","n","A","I"," ","c","l","i","e",
      "n","t"," ","n","o","t"," ","i","n","i","t","i","a","l","i","z","e","d",
      " ","o","r"," ","A","P","I"," ","k","e","y"," ","m","i","s","s","i","n",
      "g","/","p","l","a","c","e","h","o","l","d","e","r",")",".","*">>

\* line 53
NO_ISSUES_TEXT ==
    <<"*","N","o"," ","s","i","g","n","i","f","i","c","a","n","t"," ","i","s",
      "s","u","e","s"," ","f","o","u","n","d"," ","r","e","q","u","i","r","i",
      "n","g"," ","A","I"," ","s","u","g","g","e","s","t","i","o","n","s",".",
      "*">>

\* line 96
EMPTY_RESPONSE_TEXT ==
    <<"*","A","I"," ","s","u","g","g","e","s","t","i","o","n"," ","g","e","n",
      "e","r","a","t","i","o","n"," ","f","a","i","l","e","d"," ","(","e","m",
      "p","t","y"," ","r","e","s","p","o","n","s","e",")",".","*">>

\* line 104, up to ${error.name}
API_ERROR_TEXT ==
    <<"*","A","I"," ","s","u","g","g","e","s","t","i","o","n","s"," ","f","a",
      "i","l","e","d"," ","d","u","e"," ","t","o"," ","a","n"," ","A","P","I",
      " ","e","r","r","o","r",":"," ">>

\* line 107, up to ${error.message || error}
OTHER_ERROR_TEXT ==
    <<"*","A","I"," ","s","u","g","g","e","s","t","i","o","n","s"," ","f","a",
      "i","l","e","d"," ","d","u","e"," ","t","o"," ","a","n"," ","u","n","e",
      "x","p","e","c","t","e","d"," ","e","r","r","o","r",":"," ">>

\* line 90, the argument of startsWith
FENCE_MARKDOWN ==
    <<Backtick,Backtick,Backtick,"m","a","r","k","d",
      "o","w","n">>

\* Array.prototype.slice(start, end), for 0 <= start <= end
Slice(a, start, end) == SubSeq(a, start + 1, Min(end, Len(a)))

\* line 44
SecretEntry(f) ==
    [file |-> f.file, line |-> f.line, type |-> f.type, severity |-> f.severity]

\* line 48: d.vulnerabilities.map(v => v.id)
VulnerabilityIds(d) == [i \in 1..Len(d.vulnerabilities) |-> d.vulnerabilities[i].id]

\* every id of the dependency, with no slice
CveIds_All(d) == VulnerabilityIds(d)

\* line 48: d.vulnerabilities.map(v => v.id).slice(0, 3)
CveIds(d) == Slice(VulnerabilityIds(d), 0, 3)

\* line 48
DependencyEntry(d) ==
    [name |-> d.name, version |-> d.version, maxSeverity |-> d.maxSeverity,
     cveIds |-> CveIds(d)]

\* line 46
HasVulnerabilities(f) == Len(f.vulnerabilities) > 0

\* lines 42-44
SummarizedSecrets(secretFindings) ==
    LET kept == Slice(secretFindings, 0, MAX_SECRETS_FOR_AI)
    IN  [i \in 1..Len(kept) |-> SecretEntry(kept[i])]

\* lines 45-48
SummarizedDependencies(dependencyFindings) ==
    LET kept == Slice(SelectSeq(dependencyFindings, HasVulnerabilities),
                      0, MAX_DEPS_FOR_AI)
    IN  [i \in 1..Len(kept) |-> DependencyEntry(kept[i])]

\* lines 41-49
SummarizedData(data) ==
    [secrets |-> SummarizedSecrets(data.secretFindings),
     dependencies |-> SummarizedDependencies(data.dependencyFindings)]

\* line 52
NothingToSummarize(summarizedData) ==
    Len(summarizedData.secrets) = 0 /\ Len(summarizedData.dependencies) = 0

\* lines 73-83: what is sent; the prompt around the findings is fixed text
Request(summarizedData) == [model |-> "gpt-4o-mini", findings |-> summarizedData]

\* line 85: completion.choices[0]?.message?.content?.trim()
Suggestions(completion) ==
    IF completion.choices = <<>> THEN <<>>
    ELSE IF completion.choices[1].message.content = <<>> THEN <<>>
    ELSE <<Trim(completion.choices[1].message.content[1])>>

\* line 87: if (suggestions), false of undefined and of the empty string
Truthy(suggestions) == suggestions # <<>> /\ suggestions[1] # <<>>

\* lines 90-93
Cleanup(suggestions) ==
    IF StartsWith(suggestions, FENCE_MARKDOWN)
    THEN Trim(Substring(suggestions, 10, Len(suggestions) - 3))
    ELSE suggestions

\* Error.prototype.toString()
ErrorToString(error) ==
    IF error.message = <<>> THEN error.name
    ELSE error.name \o <<":", " ">> \o error.message

\* line 104
ApiErrorText(error) ==
    API_ERROR_TEXT \o error.name \o <<" ", "(">> \o error.message \o <<")", "*">>

\* line 107: error.message || error
OtherErrorText(error) ==
    OTHER_ERROR_TEXT
        \o (IF error.message # <<>> THEN error.message ELSE ErrorToString(error))
        \o <<"*">>

(***************************************************************************)
(* The reports summarized and the answers of the service                   *)
(***************************************************************************)
MaxSecrets == 11
MaxDeps == 20
MaxVulns == 4

\* the i-th secret finding of a report
Secret(i) ==
    [file |-> "src/config.ts", line |-> i, type |-> "AWS Access Key ID",
     severity |-> "High", snippet |-> "AKIA****"]

Vulnerability(i, j) == [id |-> <<"CVE", i, j>>, severity |-> "High"]

\* the i-th dependency of a report, with n vulnerabilities
Dependency(i, n) ==
    [name |-> <<"pkg", i>>, version |-> "1.0.0",
     vulnerabilities |-> [j \in 1..n |-> Vulnerability(i, j)],
     maxSeverity |-> IF n = 0 THEN "Info" ELSE "High"]

\* how many vulnerabilities the i-th dependency has: 1 to MaxVulns in turn,
\* none, or 0 to MaxVulns in turn
AllVulnerable(i) == ((i - 1) % MaxVulns) + 1
NoneVulnerable(i) == 0
SomeVulnerable(i) == i % (MaxVulns + 1)

SecretLists == {[i \in 1..n |-> Secret(i)] : n \in 0..MaxSecrets}

DependencyLists ==
    {[i \in 1..n |-> Dependency(i, AllVulnerable(i))] : n \in 0..MaxDeps}
    \cup {[i \in 1..n |-> Dependency(i, NoneVulnerable(i))] : n \in 0..MaxDeps}
    \cup {[i \in 1..n |-> Dependency(i, SomeVulnerable(i))] : n \in 0..MaxDeps}

Reports == [secretFindings : SecretLists, dependencyFindings : DependencyLists]

R_plain ==
    <<"1","."," ","F","i","x">>

R_padded ==
    <<" "," ","1","."," ","F","i","x","\n">>

R_fenced ==
    <<Backtick,Backtick,Backtick,"m","a","r","k","d",
      "o","w","n","\n","1","."," ","F",
      "i","x","\n",Backtick,Backtick,Backtick>>

R_fencedTight ==
    <<Backtick,Backtick,Backtick,"m","a","r","k","d",
      "o","w","n","1","."," ","F","i",
      "x",Backtick,Backtick,Backtick>>

R_fencedOpen ==
    <<Backtick,Backtick,Backtick,"m","a","r","k","d",
      "o","w","n","\n","1","."," ","F",
      "i","x">>

R_fencedPlain ==
    <<Backtick,Backtick,Backtick,"\n","1","."," ","F",
      "i","x","\n",Backtick,Backtick,Backtick>>

R_blank ==
    <<" ","\n">>

M_rateLimit ==
    <<"4","2","9"," ","R","a","t","e"," ","l","i","m","i","t">>

M_timeout ==
    <<"t","i","m","e","o","u","t">>

N_Error ==
    <<"E","r","r","o","r">>

Responses ==
    {R_plain, R_padded, R_fenced, R_fencedTight, R_fencedOpen, R_fencedPlain,
     R_blank, <<>>}

\* a completion with no choice, with content null, or with a text content
Completions ==
    {[choices |-> <<>>], [choices |-> <<[message |-> [content |-> <<>>]]>>]}
    \cup {[choices |-> <<[message |-> [content |-> <<r>>]]>>] : r \in Responses}

ApiErrors == {[status |-> 429, name |-> N_Error, message |-> M_rateLimit]}

OtherErrors ==
    {[name |-> N_Error, message |-> M_timeout], [name |-> N_Error, message |-> <<>>]}

(***************************************************************************)
(* The steps of getAiFixSuggestions                                        *)
(***************************************************************************)
Returns(text, warned) ==
    [returned |-> TRUE, thrown |-> FALSE, value |-> text, warned |-> warned]

\* lines 36-38
ReturnSkipped ==
    /\ apc = "start"
    /\ openai = "null"
    /\ aresult' = Returns(SKIPPED_TEXT, FALSE)
    /\ apc' = "done"
    /\ UNCHANGED <<openai, reportData, request, outcome, scanVars>>

\* lines 41-54
ReturnNoIssues ==
    /\ apc = "start"
    /\ openai # "null"
    /\ NothingToSummarize(SummarizedData(reportData))
    /\ aresult' = Returns(NO_ISSUES_TEXT, FALSE)
    /\ apc' = "done"
    /\ UNCHANGED <<openai, reportData, request, outcome, scanVars>>

\* lines 41-83: the request is sent and the function waits for its promise
SendRequest ==
    /\ apc = "start"
    /\ openai # "null"
    /\ \E summarizedData \in {SummarizedData(reportData)} :
        /\ ~NothingToSummarize(summarizedData)
        /\ request' = <<Request(summarizedData)>>
    /\ apc' = "await"
    /\ UNCHANGED <<openai, reportData, outcome, aresult, scanVars>>

\* lines 85-93: the promise is fulfilled with suggestions
ReceiveSuggestions ==
    /\ apc = "await"
    /\ \E completion \in Completions :
        \E suggestions \in {Suggestions(completion)} :
            /\ Truthy(suggestions)
            /\ outcome' = <<[k |-> "completion", completion |-> completion]>>
            /\ aresult' = Returns(Cleanup(suggestions[1]), FALSE)
    /\ apc' = "done"
    /\ UNCHANGED <<openai, reportData, request, scanVars>>

\* lines 85-87 and 94-97: the promise is fulfilled with no suggestions
ReceiveEmpty ==
    /\ apc = "await"
    /\ \E completion \in Completions :
        /\ ~Truthy(Suggestions(completion))
        /\ outcome' = <<[k |-> "completion", completion |-> completion]>>
    /\ aresult' = Returns(EMPTY_RESPONSE_TEXT, TRUE)
    /\ apc' = "done"
    /\ UNCHANGED <<openai, reportData, request, scanVars>>

\* lines 99-104: the promise is rejected with an OpenAI.APIError
RequestFailsApi ==
    /\ apc = "await"
    /\ \E error \in ApiErrors :
        /\ outcome' = <<[k |-> "error", error |-> error]>>
        /\ aresult' = Returns(ApiErrorText(error), TRUE)
    /\ apc' = "done"
    /\ UNCHANGED <<openai, reportData, request, scanVars>>

\* a rejection that is not caught
RequestFailsOther_Propagates ==
    /\ apc = "await"
    /\ \E error \in OtherErrors :
        /\ outcome' = <<[k |-> "error", error |-> error]>>
    /\ aresult' = [returned |-> FALSE, thrown |-> TRUE, value |-> <<>>, warned |-> FALSE]
    /\ apc' = "done"
    /\ UNCHANGED <<openai, reportData, request, scanVars>>

\* lines 99-101 and 105-108: the promise is rejected with another Error
RequestFailsOther ==
    /\ apc = "await"
    /\ \E error \in OtherErrors :
        /\ outcome' = <<[k |-> "error", error |-> error]>>
        /\ aresult' = Returns(OtherErrorText(error), TRUE)
    /\ apc' = "done"
    /\ UNCHANGED <<openai, reportData, request, scanVars>>

(***************************************************************************)
(* Specification of getAiFixSuggestions                                    *)
(***************************************************************************)
ScanIdle ==
    /\ filePath \in FilePaths
    /\ source = <<>>
    /\ content = <<>>
    /\ ast = NoAst
    /\ pc = "idle"
    /\ stack = <<>>
    /\ visited = <<>>
    /\ findings = <<>>
    /\ origin = <<>>
    /\ result = NoResult

\* lines 8-19: the client is there when the key is set, null otherwise
InitAi ==
    /\ ScanIdle
    /\ openai \in {"null", "client"}
    /\ reportData \in Reports
    /\ apc = "start"
    /\ request = <<>>
    /\ outcome = <<>>
    /\ aresult = NoResult

NextAi ==
    \/ ReturnSkipped
    \/ ReturnNoIssues
    \/ SendRequest
    \/ ReceiveSuggestions
    \/ ReceiveEmpty
    \/ RequestFailsApi
    \/ RequestFailsOther

SpecAi == InitAi /\ [][NextAi]_vars

(***************************************************************************)
(* What the file says, read off the written statements (not off the tree)  *)
(***************************************************************************)
RECURSIVE CallsIn(_)
\* the call expressions written in expression d
CallsIn(d) ==
    CASE d.k = "member" -> CallsIn(d.obj) \cup CallsIn(d.prop)
      [] d.k = "call" ->
            {d} \cup CallsIn(d.callee) \cup UNION {CallsIn(d.args[i]) : i \in 1..Len(d.args)}
      [] OTHER -> {}

\* statements keep to one line: statement i starts on line i, or on line 1
LineOfStmt(src, i) == IF src[i].nl THEN i ELSE 1

CallsOnLine(src, L) ==
    UNION {CallsIn(src[i].expr) : i \in {j \in 1..Len(src) : LineOfStmt(src, j) = L}}

WrittenLoggerCall(call) ==
    /\ call.callee.k = "member"
    /\ call.callee.obj.k = "id"
    /\ call.callee.obj.name \in {W_console, W_log, W_logger}
    /\ call.callee.prop.k = "id"
    /\ call.callee.prop.name \in {W_log, W_info, W_warn, W_error, W_debug}

WrittenErrorFirst(call) ==
    /\ Len(call.args) >= 1
    /\ \/ call.args[1].k = "id" /\ call.args[1].name \in {W_err, W_error, W_e}
       \/ /\ call.args[1].k = "member"
          /\ call.args[1].prop.k = "id"
          /\ call.args[1].prop.name = W_stack

HasWord(text, w) ==
    \E i \in 1..Len(text) :
        /\ i + Len(w) - 1 <= Len(text)
        /\ \A j \in 1..Len(w) : ToLower(text[i + j - 1]) = w[j]

Sensitive(text) ==
    \E w \in {W_password, W_email, W_token, W_ssn, W_secret, W_key, W_credential} :
        HasWord(text, w)

Parsed == ast.k = "obj"
Finished == pc = "done"

FindingsAt(fs, type, L) == {i \in 1..Len(fs) : fs[i].type = type /\ fs[i].line = L}

(***************************************************************************)
(* C1: for a file that parses, the returned findings hold exactly one      *)
(* 'Potential Unsanitized Error Logging' finding for a line when a logger  *)
(* call on that line has err, error, e or a .stack access as its first     *)
(* argument, and none for the line otherwise, however many such calls      *)
(* there are.                                                              *)
(***************************************************************************)
C1_ErrorOncePerLine ==
    (Finished /\ Parsed) =>
        /\ \A i \in 1..Len(result.value) : result.value[i].line \in 1..Len(source)
        /\ \A L \in 1..Len(source) :
            Cardinality(FindingsAt(result.value, ERROR_LOG, L)) =
                IF \E call \in CallsOnLine(source, L) :
                      WrittenLoggerCall(call) /\ WrittenErrorFirst(call)
                THEN 1 ELSE 0

\* two statements of one line each log an error first, and the line has one finding
C1_Witness ==
    /\ Finished /\ Parsed
    /\ \E i, j \in 1..Len(source) :
        /\ i < j
        /\ LineOfStmt(source, i) = LineOfStmt(source, j)
        /\ source[i].expr # source[j].expr
        /\ \E call \in CallsIn(source[i].expr) :
              WrittenLoggerCall(call) /\ WrittenErrorFirst(call)
        /\ \E call \in CallsIn(source[j].expr) :
              WrittenLoggerCall(call) /\ WrittenErrorFirst(call)
        /\ Cardinality(FindingsAt(result.value, ERROR_LOG, LineOfStmt(source, i))) = 1

(***************************************************************************)
(* C2: for a file that parses, a logger call with an argument whose text   *)
(* holds a sensitive keyword in any letter case has a 'Potential PII       *)
(* Logging' finding of severity Medium on its line; a PII finding comes    *)
(* only from a call one of whose arguments holds a keyword; every PII      *)
(* finding has severity Medium.                                            *)
(***************************************************************************)
C2_PiiFlagged ==
    (Finished /\ Parsed) =>
        /\ \A L \in 1..Len(source) :
            \A call \in CallsOnLine(source, L) :
                (/\ WrittenLoggerCall(call)
                 /\ \E a \in 1..Len(call.args) : Sensitive(Text(call.args[a])))
                => \E i \in FindingsAt(result.value, PII_LOG, L) :
                      result.value[i].severity = "Medium"
        /\ \A i \in 1..Len(result.value) :
            result.value[i].type = PII_LOG =>
                /\ result.value[i].severity = "Medium"
                /\ LET args == Get(At(ast, origin[i]), "arguments").elems
                   IN  \E a \in 1..Len(args) : Sensitive(RangeText(content, args[a]))

\* a keyword written with capitals is flagged, beside a logger call without any keyword
C2_Witness ==
    /\ Finished /\ Parsed
    /\ \E i \in 1..Len(result.value) :
        /\ result.value[i].type = PII_LOG
        /\ result.value[i].severity = "Medium"
        /\ result.value[i].message # [j \in 1..Len(result.value[i].message) |->
                                        ToLower(result.value[i].message[j])]
    /\ \E s \in 1..Len(source) :
        /\ source[s].expr.k = "call"
        /\ WrittenLoggerCall(source[s].expr)
        /\ \A a \in 1..Len(source[s].expr.args) : ~Sensitive(Text(source[s].expr.args[a]))
        /\ FindingsAt(result.value, PII_LOG, LineOfStmt(source, s)) = {}

\* the tree's reading of a logger call: CallExpression, callee a member
\* expression of an identifier receiver and an identifier method, both listed
LoggerCallNode(node) ==
    /\ TypeOf(node) = "CallExpression"
    /\ LET callee == Get(node, "callee")
       IN  /\ TypeOf(callee) = "MemberExpression"
           /\ TypeOf(Get(callee, "object")) = "Identifier"
           /\ Get(Get(callee, "object"), "name").v \in {W_console, W_log, W_logger}
           /\ TypeOf(Get(callee, "property")) = "Identifier"
           /\ Get(Get(callee, "property"), "name").v
                \in {W_log, W_info, W_warn, W_error, W_debug}

PiiIndexes(fs) == {i \in 1..Len(fs) : fs[i].type = PII_LOG}
\* the argument snippet a finding stores, and the preview the code compares
SnippetOf(argText) == Substring(argText, 0, 200)
PreviewOf(argText) == Trim(Substring(argText, 0, 100))
Overlap(s, t) == StartsWith(s, t) \/ StartsWith(t, s)
LastVisited == At(ast, visited[Len(visited)])
\* argument a of the logger call the walk has just left got no finding of its own
Dropped(a) ==
    ~\E i \in PiiIndexes(findings) :
        /\ origin[i] = visited[Len(visited)]
        /\ findings[i].details.argument = a
ArgTextOf(node, a) == RangeText(content, Get(node, "arguments").elems[a])
LineOfNode(node) == Get(Get(Get(node, "loc"), "start"), "line").v

(***************************************************************************)
(* C3 as stated: at every point of a scan no two PII findings of one line  *)
(* have snippets of which one is a prefix of the other, and an argument    *)
(* with a keyword is left out only when a finding of its line with an      *)
(* overlapping snippet is in the result.                                   *)
(***************************************************************************)
C3_NoOverlapAnyOrder ==
    /\ \A i, j \in PiiIndexes(findings) :
        (i # j /\ findings[i].line = findings[j].line)
            => ~Overlap(findings[i].snippet, findings[j].snippet)
    /\ (visited # <<>> /\ LoggerCallNode(LastVisited)) =>
        \A a \in 1..Len(Get(LastVisited, "arguments").elems) :
            (Sensitive(ArgTextOf(LastVisited, a)) /\ Dropped(a)) =>
                \E i \in PiiIndexes(findings) :
                    /\ findings[i].line = LineOfNode(LastVisited)
                    /\ Overlap(findings[i].snippet, SnippetOf(ArgTextOf(LastVisited, a)))

(***************************************************************************)
(* C3 as amended: the comparison runs one way.  At every point of a scan,  *)
(* of two PII findings of one line the later one's preview (the first 100  *)
(* characters of its argument, trimmed) is no prefix of the earlier one's  *)
(* snippet; and an argument with a keyword is left out only when a PII     *)
(* finding of its line is in the result whose snippet starts with that     *)
(* argument's preview.                                                     *)
(***************************************************************************)
C3_PrefixDedup ==
    /\ \A i, j \in PiiIndexes(findings) :
        (i < j /\ findings[i].line = findings[j].line)
            => ~StartsWith(findings[i].snippet, PreviewOf(findings[j].snippet))
    /\ (visited # <<>> /\ LoggerCallNode(LastVisited)) =>
        \A a \in 1..Len(Get(LastVisited, "arguments").elems) :
            (Sensitive(ArgTextOf(LastVisited, a)) /\ Dropped(a)) =>
                \E i \in PiiIndexes(findings) :
                    /\ findings[i].line = LineOfNode(LastVisited)
                    /\ StartsWith(findings[i].snippet, PreviewOf(ArgTextOf(LastVisited, a)))

\* an argument was left out for an earlier finding of the line, and the line
\* holds two findings of which the earlier snippet is a prefix of the later
C3_Witness ==
    /\ visited # <<>> /\ LoggerCallNode(LastVisited)
    /\ \E a \in 1..Len(Get(LastVisited, "arguments").elems) :
        Sensitive(ArgTextOf(LastVisited, a)) /\ Dropped(a)
    /\ \E i, j \in PiiIndexes(findings) :
        /\ i < j
        /\ findings[i].line = findings[j].line
        /\ StartsWith(findings[j].snippet, findings[i].snippet)

(***************************************************************************)
(* C4: every finding was pushed at a call-expression node whose callee is  *)
(* a member expression with receiver identifier console, log or logger and *)
(* method identifier log, info, warn, error or debug; a file whose calls   *)
(* all have another receiver or method yields no finding.                  *)
(***************************************************************************)
C4_OnlyLoggerCalls ==
    /\ \A i \in 1..Len(findings) : LoggerCallNode(At(ast, origin[i]))
    /\ (Finished /\ Parsed
        /\ \A s \in 1..Len(source) :
              \A call \in CallsIn(source[s].expr) : ~WrittenLoggerCall(call))
       => result.value = <<>>

\* a file with findings that also holds calls outside the lists that log err first
C4_Witness ==
    /\ Finished /\ Parsed
    /\ result.value # <<>>
    /\ \E s \in 1..Len(source) :
        \E call \in CallsIn(source[s].expr) :
            /\ ~WrittenLoggerCall(call)
            /\ WrittenErrorFirst(call)
            /\ \E a \in 1..Len(call.args) : Sensitive(Text(call.args[a]))
    /\ \E s \in 1..Len(source) :
        \E call \in CallsIn(source[s].expr) :
            /\ call.callee.k = "member"
            /\ call.callee.obj.k = "call"
            /\ call.callee.prop.k = "id"
            /\ call.callee.prop.name = W_error

(***************************************************************************)
(* C5: scanForLoggingIssues raises nothing to its caller; when the parse   *)
(* fails it returns the empty sequence, and what it returns is always the  *)
(* finding sequence.                                                       *)
(***************************************************************************)
C5_NeverThrows ==
    /\ ~result.thrown
    /\ Finished =>
        /\ result.returned
        /\ result.value = findings
        /\ ~Parsed => result.value = <<>>

\* a file that does not parse has been scanned
C5_Witness ==
    /\ Finished
    /\ \E s \in 1..Len(source) : source[s].expr.k = "garbage"
    /\ result.returned /\ result.value = <<>>

(***************************************************************************)
(* C8 as stated: what the caller observes for a file whose parse failed    *)
(* differs from what it observes for a file that parses and has no logging *)
(* issue (the empty sequence returned, nothing thrown, nothing logged).    *)
(***************************************************************************)
CleanOutcome == [returned |-> TRUE, thrown |-> FALSE, value |-> <<>>, warned |-> FALSE]

C8_FailureDistinguishable ==
    (Finished /\ ~Parsed) => result # CleanOutcome

RECURSIVE ReachFrom(_, _)
\* the objects reachable from an object through object- and array-valued keys
ReachFrom(node, path) ==
    {path} \cup UNION {
        LET child == node.fields[i][2]
        IN  IF child.k = "obj" THEN ReachFrom(child, Append(path, <<i, 0>>))
            ELSE IF child.k = "arr"
            THEN UNION {ReachFrom(child.elems[j], Append(path, <<i, j>>)) :
                            j \in {m \in 1..Len(child.elems) : child.elems[m].k = "obj"}}
            ELSE {}
        : i \in 1..Len(node.fields)}

IsAncestor(p, q) == Len(p) < Len(q) /\ SubSeq(q, 1, Len(p)) = p

C9_WalkDone ==
    (Finished /\ Parsed) =>
        /\ \A i, j \in 1..Len(visited) : i # j => visited[i] # visited[j]
        /\ {visited[i] : i \in 1..Len(visited)} = ReachFrom(ast, <<>>)
        /\ \A i, j \in 1..Len(visited) : IsAncestor(visited[i], visited[j]) => i < j

(***************************************************************************)
(* C9: the walk started at the root of a syntax tree terminates, has then  *)
(* visited every object reachable through object- and array-valued keys    *)
(* exactly once, and has visited each before all of its descendants.       *)
(***************************************************************************)
C9_WalkTerminates == []C9_WalkDone /\ <>Finished

\* a walk over a tree with calls nested in arguments has ended
C9_Witness ==
    /\ Finished /\ Parsed
    /\ \E i \in 1..Len(visited) : Len(visited[i]) >= 6
    /\ Len(visited) = Cardinality(ReachFrom(ast, <<>>))

(***************************************************************************)
(* What the call was given and what the service did, read off the inputs   *)
(***************************************************************************)
AiFinished == apc = "done"

ClientPresent == openai # "null"

\* the dependencies of the report that have a vulnerability, by position
Vulnerable ==
    {i \in 1..Len(reportData.dependencyFindings) :
        reportData.dependencyFindings[i].vulnerabilities # <<>>}

\* the k-th smallest member of a set of numbers
Kth(S, k) == CHOOSE i \in S : Cardinality({j \in S : j < i}) = k - 1

NothingToReport == reportData.secretFindings = <<>> /\ Vulnerable = {}

ServiceFailed == outcome # <<>> /\ outcome[1].k = "error"

\* the text the service answered with, if it answered with one
AnswerText ==
    IF outcome = <<>> \/ outcome[1].k # "completion" THEN <<>>
    ELSE IF outcome[1].completion.choices = <<>> THEN <<>>
    ELSE outcome[1].completion.choices[1].message.content

ServiceReturnedNothing ==
    /\ outcome # <<>>
    /\ outcome[1].k = "completion"
    /\ AnswerText = <<>> \/ \A i \in 1..Len(AnswerText[1]) : IsSpace(AnswerText[1][i])

ServiceReturnedText ==
    /\ AnswerText # <<>>
    /\ \E i \in 1..Len(AnswerText[1]) : ~IsSpace(AnswerText[1][i])

FailurePlaceholder(text) ==
    /\ \/ StartsWith(text, API_ERROR_TEXT)
       \/ StartsWith(text, OTHER_ERROR_TEXT)
    /\ text[Len(text)] = "*"

EndsWith(s, suffix) ==
    /\ Len(suffix) <= Len(s)
    /\ SubSeq(s, Len(s) - Len(suffix) + 1, Len(s)) = suffix

FENCE_CLOSE == <<Backtick, Backtick, Backtick>>

(***************************************************************************)
(* C6: getAiFixSuggestions never propagates an error and every call that   *)
(* has not returned can go on; what it returns is the 'skipped'            *)
(* placeholder when the client is absent, the 'no significant issues'      *)
(* placeholder when the report has no secret and no vulnerable dependency, *)
(* a 'failed' placeholder when the service call fails, the 'empty          *)
(* response' placeholder when the service returns nothing; and a request   *)
(* is issued only when the client is present and the summary is not empty. *)
(***************************************************************************)
C6_AlwaysAString ==
    /\ ~aresult.thrown
    /\ AiFinished \/ ENABLED NextAi
    /\ request # <<>> => ClientPresent /\ ~NothingToReport
    /\ AiFinished =>
        /\ aresult.returned
        /\ ~ClientPresent => aresult.value = SKIPPED_TEXT /\ request = <<>>
        /\ ClientPresent /\ NothingToReport =>
            aresult.value = NO_ISSUES_TEXT /\ request = <<>>
        /\ ClientPresent /\ ~NothingToReport => request # <<>>
        /\ ServiceFailed => FailurePlaceholder(aresult.value)
        /\ ServiceReturnedNothing => aresult.value = EMPTY_RESPONSE_TEXT

\* the service call was rejected with an error that has no message, and the
\* call returned a placeholder
C6_Witness ==
    /\ AiFinished
    /\ ServiceFailed
    /\ outcome[1].error.message = <<>>
    /\ aresult.returned
    /\ FailurePlaceholder(aresult.value)

(***************************************************************************)
(* C7: the summary sent to the service holds the first 10 secret findings  *)
(* of the report (all of them when there are fewer), then the first 15 of  *)
(* the dependencies that have a vulnerability, in the order of the report, *)
(* each with its first 3 vulnerability ids; no dependency without a        *)
(* vulnerability is in it.                                                 *)
(***************************************************************************)
C7_SummaryBounded ==
    request # <<>> =>
        LET secrets == request[1].findings.secrets
            dependencies == request[1].findings.dependencies
            given == reportData.dependencyFindings
        IN  /\ Len(secrets) = Min(10, Len(reportData.secretFindings))
            /\ \A i \in 1..Len(secrets) :
                /\ secrets[i].file = reportData.secretFindings[i].file
                /\ secrets[i].line = reportData.secretFindings[i].line
                /\ secrets[i].type = reportData.secretFindings[i].type
                /\ secrets[i].severity = reportData.secretFindings[i].severity
            /\ Len(dependencies) = Min(15, Cardinality(Vulnerable))
            /\ \A k \in 1..Len(dependencies) :
                LET d == given[Kth(Vulnerable, k)]
                IN  /\ dependencies[k].name = d.name
                    /\ dependencies[k].version = d.version
                    /\ dependencies[k].maxSeverity = d.maxSeverity
                    /\ Len(dependencies[k].cveIds) = Min(3, Len(d.vulnerabilities))
                    /\ \A j \in 1..Len(dependencies[k].cveIds) :
                        dependencies[k].cveIds[j] = d.vulnerabilities[j].id
            /\ \A k \in 1..Len(dependencies) :
                \A i \in 1..Len(given) :
                    given[i].vulnerabilities = <<>> => dependencies[k].name # given[i].name

\* a request for a report with more than 10 secrets, more than 15 vulnerable
\* dependencies, one of the first 15 with more than 3 vulnerabilities, and
\* a dependency without a vulnerability before the 15th vulnerable one
C7_Witness ==
    /\ request # <<>>
    /\ Len(reportData.secretFindings) > 10
    /\ Cardinality(Vulnerable) > 15
    /\ \E i \in Vulnerable :
        /\ i <= Kth(Vulnerable, 15)
        /\ Len(reportData.dependencyFindings[i].vulnerabilities) > 3
    /\ \E i \in 1..Len(reportData.dependencyFindings) :
        /\ i \notin Vulnerable
        /\ i < Kth(Vulnerable, 15)
    /\ Len(request[1].findings.secrets) = 10
    /\ Len(request[1].findings.dependencies) = 15

(***************************************************************************)
(* C10: when the trimmed answer of the service starts with the opening     *)
(* fence and ends with the closing fence, the call returns the text        *)
(* between the two fences, trimmed; when it does not start with the        *)
(* opening fence, the call returns the trimmed answer.                     *)
(***************************************************************************)
C10_FenceStripped ==
    AiFinished /\ ServiceReturnedText =>
        LET t == Trim(AnswerText[1])
        IN  /\ (/\ StartsWith(t, FENCE_MARKDOWN)
                /\ EndsWith(t, FENCE_CLOSE)
                /\ Len(t) >= Len(FENCE_MARKDOWN) + Len(FENCE_CLOSE))
                => aresult.value =
                    Trim(SubSeq(t, Len(FENCE_MARKDOWN) + 1, Len(t) - Len(FENCE_CLOSE)))
            /\ ~StartsWith(t, FENCE_MARKDOWN) => aresult.value = t

\* the service answered with a fenced text and the call has returned
C10_Witness ==
    /\ AiFinished
    /\ ServiceReturnedText
    /\ StartsWith(Trim(AnswerText[1]), FENCE_MARKDOWN)
    /\ EndsWith(Trim(AnswerText[1]), FENCE_CLOSE)
    /\ aresult.returned

====
